---- MODULE Spec2Model ----
(***************************************************************************)
(* A model of the trust and attribute-release core of dm.zope.saml2:       *)
(* the keys manager of the SAML authority (authority.py, _KeysManager),    *)
(* the role registry and the export of the authority's own metadata        *)
(* (authority.py, SamlAuthority), and the selection of the attribute       *)
(* consuming service and the attribute release (attribute.py,              *)
(* SimpleAttributeProvider).                                               *)
(***************************************************************************)
EXTENDS Integers, Sequences, FiniteSets, TLC

\* ------------------------------------------------------------------ bounds
\* the clock runs over 0..MaxTime
MaxTime == 2

\* an SP descriptor declares at most MaxServices attribute consuming services
MaxServices == 3
\* service indexes run over 0..MaxIndex
MaxIndex == 2
\* a service requests at most MaxRequested attributes
MaxRequested == 2
\* the provider holds at most MaxProvided attributes
MaxProvided == 2
\* the authority is added to a container at most MaxAdds times
MaxAdds == 2

\* ------------------------------------------------------------------ values
\* Python's None; an optional value is the empty set or a singleton
None == {}
Some(x) == {x}
The(o) == CHOOSE x \in o : TRUE

Time == 0..MaxTime
\* validUntil: None (never expires) or a point in time
ValidUntils == {None} \cup {Some(t) : t \in Time}

\* the authority's own entity id (auth.entity_id) and the foreign entities
entity_id == "own"
ForeignIds == {"e1"}
EntityIds == {entity_id} \cup ForeignIds

\* the roles of dm.saml2.metadata.role2element, in its order
role2element == <<"idpsso", "spsso", "authn", "ap", "pdp">>
RoleNames == {role2element[i] : i \in 1..Len(role2element)}

\* contents the private key file can have: two keys, and one that xmlsec
\* cannot load
PrivateKeyFiles == {"k1", "k2", "unreadable"}
\* raw certificates (DER bytes) met in foreign metadata, "bad" being one that
\* xmlsec cannot load
Certs == {"c1", "c2", "bad"}
\* the role sections foreign metadata documents of the model use
MdRoles == {"idpsso", "spsso"}

\* sequences over S of length at most n
SeqUpTo(S, n) == UNION {[1..k -> S] : k \in 0..n}

\* a foreign entity's metadata document: its declared validity and, in
\* document order, the signing certificates of its role sections
CertEntry(r, c) == [role |-> r, cert |-> c]
\* the certificate lists of the documents the entities publish: none, one
\* certificate, a certificate shared by two roles followed by another, and
\* one that cannot be loaded
CertLists ==
  { <<>>,
    <<CertEntry("idpsso", "c1")>>,
    <<CertEntry("spsso", "c2"), CertEntry("idpsso", "c1"), CertEntry("spsso", "c1")>>,
    <<CertEntry("idpsso", "bad")>> }
MetadataDocs == [validUntil : ValidUntils, certs : CertLists]

VARIABLES
  now,                \* utcnow()
  eid2volatile_info,  \* _KeysManager.eid2volatile_info: eid -> None or Some(info)
  recent_metadata,    \* the metadata repository: eid -> None or Some(document)
  private_key,        \* content of the file auth.private_key names
  ret,                \* what the last call did and returned
  hist,               \* history: when the last call was made, and the call before it
  pc,                 \* per thread: where its __getitem__ call stands
  local,              \* per thread: eid and the computed (validUntil, keys)
  catalog,            \* SimpleAttributeProvider.objectValues(), in order
  roles,              \* SamlAuthority.roles: role -> None or Some(path)
  call,               \* the last call outside the keys manager and its result
  entities,           \* the ids of the entities the authority manages
  deleted,            \* the paths of the role implementors that were deleted
  parent,             \* the container the authority is in: None or Some(container)
  utility,            \* the authority is registered as ISamlAuthority utility
  own_entity_adds     \* how often move_handler added an OwnEntity

\* the threads that call into the keys manager
Threads == {"t1", "t2"}

concVars == <<pc, local>>
\* the state outside the keys manager and its threads
\* the objects of the site
placeVars == <<parent, utility, own_entity_adds>>
siteVars == <<entities, deleted, placeVars>>
otherVars == <<catalog, roles, call, siteVars>>
vars == <<now, eid2volatile_info, recent_metadata, private_key, ret, hist, concVars, otherVars>>

\* the return of a call: the operation, its entity id, the keys returned (None
\* when the call returns nothing) and whether the keys were recomputed
Return(op, eid, keys, recomputed) ==
  [op |-> op, eid |-> eid, keys |-> keys, recomputed |-> recomputed]
NoReturn == Return("none", entity_id, None, FALSE)

\* the history of a call made now: its time and the call it follows
Record == hist' = [at |-> now, prev |-> <<ret.op, ret.eid>>]

\* ------------------------------------------------------------------ Volatile
\* util.Volatile: a holder of one value that is never persisted
VolatileSet(info) == Some(info)
VolatileGet(volatile) == IF volatile = None THEN None ELSE volatile

\* ------------------------------------------------------------------ keys
\* xmlsec.Key.load(private key file): the authority's sign key, a 1-tuple
OwnKeys(file) == <<[kind |-> "private", data |-> file]>>

\* md.get_role_certificates(r, "signing")
get_role_certificates(doc, r) ==
  LET RECURSIVE Sel(_)
      Sel(s) == IF s = <<>> THEN <<>>
                ELSE IF Head(s).role = r THEN <<Head(s).cert>> \o Sel(Tail(s))
                ELSE Sel(Tail(s))
  IN Sel(doc.certs)

\* mutant: a certificate already seen is taken again
CollectCerts_all(certs, acc) == acc \o certs

\* the loop over role2element and the role's certificates, skipping the
\* certificates already seen
RECURSIVE CollectCerts(_, _)
CollectCerts(certs, acc) ==
  IF certs = <<>> THEN acc
  ELSE IF \E i \in 1..Len(acc) : acc[i] = Head(certs)
       THEN CollectCerts(Tail(certs), acc)
       ELSE CollectCerts(Tail(certs), Append(acc, Head(certs)))

RECURSIVE AllRoleCerts(_, _)
AllRoleCerts(doc, i) ==
  IF i > Len(role2element) THEN <<>>
  ELSE get_role_certificates(doc, role2element[i]) \o AllRoleCerts(doc, i + 1)

ForeignKeys(doc) ==
  LET cs == CollectCerts(AllRoleCerts(doc, 1), <<>>)
  IN [i \in 1..Len(cs) |-> [kind |-> "cert", data |-> cs[i]]]

\* mutant: whatever the file holds is taken as a key
KeyLoads_any(file) == TRUE

\* xmlsec.Key.load of the private key file succeeds
KeyLoads(file) == file # "unreadable"

\* xmlsec.Key.loadMemory succeeds for every certificate of the document
CertsLoad(doc) == \A i \in 1..Len(doc.certs) : doc.certs[i].cert # "bad"

\* mutant: the slot is taken as expired at the instant of its validUntil
CacheValid_strict(info, t) ==
  info # None /\ (The(info).validUntil = None \/ t < The(The(info).validUntil))

\* the cache test of __getitem__: the slot holds an info that is still valid
CacheValid(info, t) ==
  info # None /\ (The(info).validUntil = None \/ t <= The(The(info).validUntil))

\* a metadata document is valid at time t
DocValid(doc, t) == doc.validUntil = None \/ t <= The(doc.validUntil)

\* EntityMetadata.default_validity: the authority's metadata_validity, in
\* clock ticks
default_validity == 1

\* the repository gives a document fetched at time t that declares no
\* validUntil the default validity
Validated(d, t) ==
  [d EXCEPT !.validUntil = IF d.validUntil = None THEN Some(t + default_validity)
                           ELSE d.validUntil]

\* the documents a fetch at time t can validate
FetchableDocs(t) == {Validated(d, t) : d \in {m \in MetadataDocs : DocValid(m, t)}}

\* md.get_recent_metadata(): the repository's document while it is valid,
\* else a newly fetched one; a fetch notifies ObjectModifiedEvent
RecentMetadataOutcomes(eid) ==
  IF recent_metadata[eid] # None /\ DocValid(The(recent_metadata[eid]), now)
  THEN {[doc |-> The(recent_metadata[eid]), fetched |-> FALSE]}
  ELSE {[doc |-> d, fetched |-> TRUE] : d \in FetchableDocs(now)}

\* mutant: the whole mapping is cleared
delitem_all(m, eid) == [e \in EntityIds |-> None]

\* mutant: the entry is left in place
delitem_keep(m, eid) == m

\* _KeysManager.__delitem__ on the mapping m
delitem(m, eid) == [m EXCEPT ![eid] = None]

\* signature_context_changed: the subscriber of ObjectModifiedEvent
signature_context_changed(m, eid) == delitem(m, eid)

\* mutant: the sign key expires like a foreign key
OwnInfo_expiring == [validUntil |-> Some(now), keys |-> OwnKeys(private_key)]

\* the (validUntil, keys) the authority's own entity gets
OwnInfo == [validUntil |-> None, keys |-> OwnKeys(private_key)]

\* mutant: the validUntil of the metadata is not taken over
ForeignInfo_unbounded(doc) == [validUntil |-> None, keys |-> ForeignKeys(doc)]

\* the (validUntil, keys) a foreign entity gets from its recent metadata
ForeignInfo(doc) == [validUntil |-> doc.validUntil, keys |-> ForeignKeys(doc)]

\* mutant: the keys are set, the validUntil is left unset
StoreInfo_keysOnly(m, eid, info) ==
  [m EXCEPT ![eid] = VolatileSet([validUntil |-> None, keys |-> info.keys])]

\* mutant: the volatile is not refetched, so that nothing reaches the mapping
\* when the entry is missing
StoreInfo_detached(m, eid, info) ==
  IF m[eid] = None THEN m ELSE [m EXCEPT ![eid] = VolatileSet(info)]

\* the end of __getitem__: refetch the volatile, create it when a subscriber
\* deleted the entry, and set the new info as a whole
StoreInfo(m, eid, info) == [m EXCEPT ![eid] = VolatileSet(info)]

\* ------------------------------------------------------------------ actions
\* the clock advances
Tick ==
  /\ now < MaxTime
  /\ now' = now + 1
  /\ UNCHANGED <<eid2volatile_info, recent_metadata, private_key, ret, concVars, otherVars>>

\* the private key file is replaced (nothing is notified)
ReplacePrivateKey ==
  /\ \E k \in PrivateKeyFiles \ {private_key} : private_key' = k
  /\ UNCHANGED <<now, eid2volatile_info, recent_metadata, ret, concVars, otherVars>>

\* the compute path of __getitem__ (lines 433-460): the info computed, and
\* the repository and the mapping as the metadata access leaves them
ComputeOutcomes(eid) ==
  IF eid = entity_id
  THEN {[info |-> OwnInfo, loaded |-> KeyLoads(private_key),
         metadata |-> recent_metadata, volatile |-> eid2volatile_info]}
  ELSE {[info |-> ForeignInfo(o.doc), loaded |-> CertsLoad(o.doc),
         metadata |-> [recent_metadata EXCEPT ![eid] = Some(o.doc)],
         volatile |-> IF o.fetched
                      THEN signature_context_changed(eid2volatile_info, eid)
                      ELSE eid2volatile_info] : o \in RecentMetadataOutcomes(eid)}

\* _KeysManager.__getitem__(eid), as one call
GetItem(eid) ==
  LET info == VolatileGet(eid2volatile_info[eid]) IN
  IF CacheValid(info, now)
  THEN /\ ret' = Return("get", eid, Some(The(info).keys), FALSE)
       /\ UNCHANGED <<now, eid2volatile_info, recent_metadata, private_key>>
       /\ UNCHANGED <<concVars, otherVars>>
  ELSE \E c \in ComputeOutcomes(eid) :
       /\ recent_metadata' = c.metadata
       /\ IF c.loaded
          THEN /\ eid2volatile_info' = StoreInfo(c.volatile, eid, c.info)
               /\ ret' = Return("get", eid, Some(c.info.keys), TRUE)
          ELSE \* the load raises: nothing is stored
               /\ eid2volatile_info' = c.volatile
               /\ ret' = Return("get_failed", eid, None, FALSE)
       /\ UNCHANGED <<now, private_key, concVars, otherVars>>

\* _KeysManager.__delitem__(eid), as one call
DelItem(eid) ==
  /\ eid2volatile_info' = delitem(eid2volatile_info, eid)
  /\ ret' = Return("del", eid, None, FALSE)
  /\ UNCHANGED <<now, recent_metadata, private_key, concVars, otherVars>>

\* EntityMetadata.fetch_metadata of a foreign entity: the repository takes a
\* new document and the subscriber drops the entity's keys
FetchMetadata(eid) ==
  /\ \E d \in FetchableDocs(now) :
       recent_metadata' = [recent_metadata EXCEPT ![eid] = Some(d)]
  /\ eid2volatile_info' = signature_context_changed(eid2volatile_info, eid)
  /\ ret' = Return("fetch", eid, None, FALSE)
  /\ UNCHANGED <<now, private_key, concVars, otherVars>>

\* EntityMetadata.clear_metadata of a foreign entity
ClearMetadata(eid) ==
  /\ recent_metadata' = [recent_metadata EXCEPT ![eid] = None]
  /\ eid2volatile_info' = signature_context_changed(eid2volatile_info, eid)
  /\ ret' = Return("clear", eid, None, FALSE)
  /\ UNCHANGED <<now, private_key, concVars, otherVars>>

\* the state of a new keys manager, no call under way
InitKeys ==
  /\ now = 0
  /\ eid2volatile_info = [e \in EntityIds |-> None]
  /\ recent_metadata = [e \in EntityIds |-> None]
  /\ private_key \in PrivateKeyFiles
  /\ ret = NoReturn
  /\ hist = [at |-> 0, prev |-> <<"none", entity_id>>]
  /\ pc = [t \in Threads |-> "idle"]
  /\ local = [t \in Threads |-> None]

\* the authority was added to a container of the site, which registered it
\* and gave it its own entity; it manages its own entity and the foreign
\* entities added to it, and no role implementor has been deleted
InitSite ==
  /\ entities = EntityIds
  /\ deleted = {}
  /\ parent = Some("A")
  /\ utility = TRUE
  /\ own_entity_adds = 1

\* a new attribute provider holds no attribute, a new authority no role
\* (SamlAuthority.__init__), and nothing has been called
InitOther ==
  /\ catalog = <<>>
  /\ roles = [r \in RoleNames |-> None]
  /\ call = [op |-> "none"]
  /\ InitSite

Init == InitKeys /\ InitOther

Next ==
  \/ Tick /\ UNCHANGED hist
  \/ ReplacePrivateKey /\ UNCHANGED hist
  \/ \E eid \in EntityIds : GetItem(eid) /\ Record
  \/ \E eid \in EntityIds : DelItem(eid) /\ Record
  \/ \E eid \in ForeignIds : FetchMetadata(eid) /\ Record
  \/ \E eid \in ForeignIds : ClearMetadata(eid) /\ Record

Spec == Init /\ [][Next]_vars

\* ------------------------------------------------------------------ threads
\* __getitem__(eid) in thread t up to line 460: the cache test and, when it
\* fails, the computation of (validUntil, keys)
GetBegin(t, eid) ==
  /\ pc[t] = "idle"
  /\ LET info == VolatileGet(eid2volatile_info[eid]) IN
     IF CacheValid(info, now)
     THEN /\ ret' = Return("get", eid, Some(The(info).keys), FALSE)
          /\ UNCHANGED <<now, eid2volatile_info, recent_metadata, private_key>>
          /\ UNCHANGED <<concVars, otherVars>>
     ELSE \E c \in ComputeOutcomes(eid) :
          /\ recent_metadata' = c.metadata
          /\ eid2volatile_info' = c.volatile
          /\ IF c.loaded
             THEN /\ pc' = [pc EXCEPT ![t] = "store"]
                  /\ local' = [local EXCEPT ![t] = Some([eid |-> eid, info |-> c.info])]
                  /\ ret' = Return("begin", eid, None, FALSE)
             ELSE /\ ret' = Return("get_failed", eid, None, FALSE)
                  /\ UNCHANGED concVars
          /\ UNCHANGED <<now, private_key, otherVars>>

\* __getitem__ in thread t from line 461: store the info and return the keys
GetStore(t) ==
  /\ pc[t] = "store"
  /\ LET l == The(local[t]) IN
     /\ eid2volatile_info' = StoreInfo(eid2volatile_info, l.eid, l.info)
     /\ ret' = Return("get", l.eid, Some(l.info.keys), TRUE)
  /\ pc' = [pc EXCEPT ![t] = "idle"]
  /\ local' = [local EXCEPT ![t] = None]
  /\ UNCHANGED <<now, recent_metadata, private_key, otherVars>>

NextConc ==
  \/ Tick /\ UNCHANGED hist
  \/ \E t \in Threads, eid \in EntityIds : GetBegin(t, eid) /\ UNCHANGED hist
  \/ \E t \in Threads : GetStore(t) /\ UNCHANGED hist
  \/ \E eid \in EntityIds : DelItem(eid) /\ UNCHANGED hist
  \/ \E eid \in ForeignIds : FetchMetadata(eid) /\ UNCHANGED hist
  \/ \E eid \in ForeignIds : ClearMetadata(eid) /\ UNCHANGED hist

SpecConc == Init /\ [][NextConc]_vars

\* concurrent calls of __getitem__ while nothing else changes: the key file
\* stays as it is and the foreign entities' recent metadata is valid throughout
InitGets ==
  /\ now = 0
  /\ eid2volatile_info = [e \in EntityIds |-> None]
  /\ recent_metadata \in
       [EntityIds -> {None} \cup {Some(d) : d \in {m \in MetadataDocs :
                                                    m.validUntil = Some(MaxTime)}}]
  /\ recent_metadata[entity_id] = None
  /\ \A e \in ForeignIds : recent_metadata[e] # None
  /\ private_key \in PrivateKeyFiles
  /\ ret = NoReturn
  /\ hist = [at |-> 0, prev |-> <<"none", entity_id>>]
  /\ pc = [t \in Threads |-> "idle"]
  /\ local = [t \in Threads |-> None]
  /\ InitOther

NextGets ==
  \/ Tick /\ UNCHANGED hist
  \/ \E t \in Threads, eid \in EntityIds : GetBegin(t, eid) /\ UNCHANGED hist
  \/ \E t \in Threads : GetStore(t) /\ UNCHANGED hist

SpecGets == InitGets /\ [][NextGets]_vars

\* ------------------------------------------------------------------ entities
\* the ids the entity manager is called with: those of the entities whose
\* keys are asked for and that of a further foreign entity
SiteIds == EntityIds \cup {"e2"}

\* mutant: no entity is protected
protected_none(eid) == FALSE

\* the entity is protected against deletion: OwnEntity.protected
protected(eid) == eid = entity_id

\* mutant: adding an entity leaves the key cache alone
setOb_invalidate_none(m, eid) == m

\* SamlAuthority._setOb: the keys of the entity added are deleted
setOb_invalidate(m, eid) == delitem(m, eid)

\* SamlAuthority._setOb(id, entity): a foreign entity is added
SetOb(eid) ==
  /\ eid \notin entities
  /\ entities' = entities \cup {eid}
  /\ recent_metadata' = [recent_metadata EXCEPT ![eid] = None]
  /\ eid2volatile_info' = setOb_invalidate(eid2volatile_info, eid)
  /\ ret' = Return("add", eid, None, FALSE)
  /\ UNCHANGED <<now, private_key, concVars, catalog, roles, call, deleted, placeVars>>

\* EntityManagerMixin._delOb(id): nothing for an unknown id, TypeError for a
\* protected entity, else the entity is deleted; the key cache is left alone
DelOb(eid) ==
  /\ IF eid \notin entities
     THEN /\ ret' = Return("delete", eid, None, FALSE)
          /\ UNCHANGED <<entities, recent_metadata>>
     ELSE IF protected(eid)
     THEN /\ ret' = Return("delete_failed", eid, None, FALSE)
          /\ UNCHANGED <<entities, recent_metadata>>
     ELSE /\ ret' = Return("delete", eid, None, FALSE)
          /\ entities' = entities \ {eid}
          /\ recent_metadata' = [recent_metadata EXCEPT ![eid] = None]
  /\ UNCHANGED <<now, eid2volatile_info, private_key>>
  /\ UNCHANGED <<concVars, catalog, roles, call, deleted, placeVars>>

\* __getitem__(eid) as the authority can serve it: for an entity it manages,
\* or from a slot that is still valid
GetManaged(eid) ==
  /\ IF CacheValid(VolatileGet(eid2volatile_info[eid]), now) THEN TRUE
     ELSE eid \in entities
  /\ GetItem(eid)

NextEntities ==
  \/ Tick /\ UNCHANGED hist
  \/ \E eid \in EntityIds : GetManaged(eid) /\ Record
  \/ \E eid \in entities \cap ForeignIds : FetchMetadata(eid) /\ Record
  \/ \E eid \in SiteIds \ {entity_id} : SetOb(eid) /\ Record
  \/ \E eid \in SiteIds : DelOb(eid) /\ Record

SpecEntities == Init /\ [][NextEntities]_vars

\* ------------------------------------------------------------------ selector
\* an attribute consuming service of SP metadata: its index, its isDefault
\* attribute (None when not set) and its requested attributes
Service(index, isDefault, requested) ==
  [index |-> index, isDefault |-> isDefault, RequestedAttribute |-> requested]
IsDefaults == {None, Some(TRUE), Some(FALSE)}
\* the requested index: None or an integer
Indexes == {None} \cup {Some(i) : i \in 0..MaxIndex}

\* where a loop over a sequence breaks: the first of the positions S at which
\* its test holds, 0 when there is none
FirstPos(S) == IF S = {} THEN 0 ELSE CHOOSE i \in S : \A j \in S : i <= j

\* line 203: index is None and acs.isDefault or index == acs.index
Matches(acs, index) ==
  (index = None /\ acs.isDefault = Some(TRUE)) \/ index = Some(acs.index)

\* mutant: an explicit false counts as not set
IsUnset_orFalse(acs) == acs.isDefault # Some(TRUE)

\* line 211: getattr(acs, "isDefault", None) is None
IsUnset(acs) == acs.isDefault = None

\* mutant: the fallback is taken whenever the SP has services
UseFallback_always(index, acss) == acss # <<>>

\* line 206: index is None and acss
UseFallback(index, acss) == index = None /\ acss # <<>>

\* lines 202-213: the service one SP descriptor yields, or None
SelectInSp(acss, index) ==
  LET p == FirstPos({i \in 1..Len(acss) : Matches(acss[i], index)}) IN
  IF p # 0 THEN Some(acss[p])
  ELSE IF UseFallback(index, acss)
       THEN LET q == FirstPos({i \in 1..Len(acss) : IsUnset(acss[i])})
            IN IF q # 0 THEN Some(acss[q]) ELSE Some(acss[1])
       ELSE None

\* SimpleAttributeProvider._attribute_consuming_service(md, index): the
\* service of the first SP descriptor that yields one
RECURSIVE attribute_consuming_service(_, _)
attribute_consuming_service(md, index) ==
  IF md = <<>> THEN None
  ELSE LET acs == SelectInSp(Head(md), index)
       IN IF acs # None THEN acs
          ELSE attribute_consuming_service(Tail(md), index)

\* the services the selector is tried on request nothing
SelectServices ==
  {Service(i, d, <<>>) : i \in 0..MaxIndex, d \in IsDefaults}
\* md.SPSSODescriptor: no SP descriptor, one with up to MaxServices services,
\* or two with at most one service each
SelectMds ==
  {<<>>} \cup {<<sp>> : sp \in SeqUpTo(SelectServices, MaxServices)}
         \cup {<<sp1, sp2>> : sp1 \in SeqUpTo(SelectServices, 1),
                              sp2 \in SeqUpTo(SelectServices, 1)}

\* the arguments of a call of _attribute_consuming_service are at hand
InitSelect ==
  /\ InitKeys /\ private_key = "k1"
  /\ catalog = <<>>
  /\ roles = [r \in RoleNames |-> None]
  /\ InitSite
  /\ \E md \in SelectMds, index \in Indexes :
       call = [op |-> "select_args", md |-> md, index |-> index]

\* the call of _attribute_consuming_service(md, index)
SelectService ==
  /\ call.op = "select_args"
  /\ call' = [op |-> "select", md |-> call.md, index |-> call.index,
              result |-> attribute_consuming_service(call.md, call.index)]
  /\ UNCHANGED <<now, eid2volatile_info, recent_metadata, private_key, ret, hist>>
  /\ UNCHANGED <<concVars, catalog, roles, siteVars>>

NextSelect == SelectService

SpecSelect == InitSelect /\ [][NextSelect]_vars

\* ------------------------------------------------------------------ release
\* attribute name formats; normalize_attrname_format("unspecified")
F_uri == "urn:oasis:names:tc:SAML:2.0:attrname-format:uri"
F_unspecified == "urn:oasis:names:tc:SAML:2.0:attrname-format:unspecified"

\* raw values: a text, a byte string (the encoding of a text) or a list of texts
Text(s) == [kind |-> "text", val |-> <<s>>]
Bytes(s) == [kind |-> "bytes", val |-> <<s>>]
List(ss) == [kind |-> "list", val |-> ss]

\* a ProvidedAttribute of the provider
Provided(id, format, title, type, evaluator) ==
  [id |-> id, format |-> format, title |-> title, type |-> type,
   evaluator |-> evaluator]
\* the provided attributes the provider can hold: the id equal to the title
\* or not, two with the same (format, title), with and without evaluator,
\* of type string or not
ProvidedAttributes ==
  { Provided("mail", F_uri, "mail", "string", None),
    Provided("email", F_uri, "mail", "string", None),
    Provided("uid", F_unspecified, "uid", "string", Some("/evaluator")),
    Provided("photo", F_unspecified, "mail", "base64Binary", None) }
\* objectValues(): the attributes in the order added, their ids distinct
Catalogs ==
  {c \in SeqUpTo(ProvidedAttributes, Cardinality(ProvidedAttributes)) :
     /\ Len(c) <= MaxProvided
     /\ \A i, j \in 1..Len(c) : i # j => c[i].id # c[j].id}

\* a RequestedAttribute of a service: the format given or not, the friendly
\* name absent, given, or given as the empty string
RequestedAttributes ==
  [NameFormat : {None, Some(F_uri)}, Name : {"mail", "uid"}, FriendlyName : {None}]
    \cup {[NameFormat |-> Some(F_uri), Name |-> "mail", FriendlyName |-> Some("fn")],
          [NameFormat |-> Some(F_uri), Name |-> "mail", FriendlyName |-> Some("")]}
\* the metadata release is tried on: no SP descriptor, an SP descriptor
\* without service, or one with the service of index 0
ReleaseMds ==
  {<<>>, << <<>> >>}
    \cup {<< <<Service(0, None, ras)>> >> :
            ras \in SeqUpTo(RequestedAttributes, MaxRequested)}
ReleaseIndexes == {None, Some(0), Some(1)}

\* the subjects: their name and member.getProperty
Members ==
  { [name |-> "alice",
     props |-> [mail |-> Text("a@example.org"), email |-> Bytes("alice@example.org"),
                photo |-> Bytes("jpeg")]],
    [name |-> "bob",
     props |-> [mail |-> List(<<"b@example.org", "bob@example.org">>),
                email |-> Text("bob@example.org"), photo |-> Text("none")]] }

\* line 147: eid = target.eid or req.Issuer.value()
TargetEids == {None, Some("e1")}
Issuer == "e2"
RequestEid(target_eid) ==
  IF target_eid # None /\ The(target_eid) # "" THEN The(target_eid) ELSE Issuer

\* lines 156-157: the dict keyed by (format, title); a later attribute
\* replaces an earlier one of the same key
CatalogGet(cat, key) ==
  LET hits == {i \in 1..Len(cat) : <<cat[i].format, cat[i].title>> = key}
  IN IF hits = {} THEN None
     ELSE Some(cat[CHOOSE i \in hits : \A j \in hits : j <= i])

\* line 162: (ra.NameFormat or normalize_attrname_format("unspecified"), ra.Name)
RequestedKey(ra) ==
  <<IF ra.NameFormat # None /\ The(ra.NameFormat) # ""
    THEN The(ra.NameFormat) ELSE F_unspecified, ra.Name>>

\* mutant: the property is looked up by the attribute's title
PropertyName_title(d) == d.title

\* line 168: the property read is d.getId()
PropertyName(d) == d.id

\* the result of the evaluator called with (member, d, eid)
Evaluate(path, member, d, eid) ==
  Text(<<"evaluated", path, member.name, d.id, eid>>)

\* lines 167-169: the raw value
RawValue(d, member, eid) ==
  IF d.evaluator = None THEN member.props[PropertyName(d)]
  ELSE Evaluate(The(d.evaluator), member, d, eid)

\* lines 171-174: a byte string of a string attribute is decoded
Decoded(d, v) ==
  IF v.kind = "bytes" /\ d.type = "string" THEN [kind |-> "text", val |-> v.val]
  ELSE v

\* an AttributeValue of an XML-Schema type
AttributeValue(type, kind, text) == [xstype |-> type, kind |-> kind, text |-> text]

\* lines 176-177: xs_convert_to_xml(d.type, v, AttributeValue), a scalar made
\* a 1-tuple: a list gives one value per element
ConvertToXml(type, v) ==
  IF v.kind = "list"
  THEN [i \in 1..Len(v.val) |-> AttributeValue(type, "text", v.val[i])]
  ELSE <<AttributeValue(type, v.kind, v.val[1])>>

\* mutant: the title stands in for a missing friendly name
Attribute_titleFallback(d, ra, xv) ==
  [NameFormat |-> d.format, Name |-> d.title,
   FriendlyName |-> IF ra.FriendlyName # None /\ The(ra.FriendlyName) # ""
                    THEN The(ra.FriendlyName) ELSE d.title,
   values |-> xv]

\* lines 178-183: the Attribute entry
Attribute(d, ra, xv) ==
  [NameFormat |-> d.format, Name |-> d.title,
   FriendlyName |-> IF ra.FriendlyName # None /\ The(ra.FriendlyName) # ""
                    THEN The(ra.FriendlyName) ELSE d.id,
   values |-> xv]

\* mutant: a requested attribute the provider lacks ends the loop
RECURSIVE EmitAttributes_abort(_, _, _, _)
EmitAttributes_abort(ras, cat, member, eid) ==
  IF ras = <<>> THEN <<>>
  ELSE LET ra == Head(ras)
           d == CatalogGet(cat, RequestedKey(ra))
       IN IF d = None THEN <<>>
          ELSE <<Attribute(The(d), ra,
                   ConvertToXml(The(d).type,
                                Decoded(The(d), RawValue(The(d), member, eid))))>>
               \o EmitAttributes_abort(Tail(ras), cat, member, eid)

\* lines 160-184: the loop over the requested attributes
RECURSIVE EmitAttributes(_, _, _, _)
EmitAttributes(ras, cat, member, eid) ==
  IF ras = <<>> THEN <<>>
  ELSE LET ra == Head(ras)
           d == CatalogGet(cat, RequestedKey(ra))
           rest == EmitAttributes(Tail(ras), cat, member, eid)
       IN IF d = None THEN rest
          ELSE <<Attribute(The(d), ra,
                   ConvertToXml(The(d).type,
                                Decoded(The(d), RawValue(The(d), member, eid))))>>
               \o rest

\* what _make_attribute_statement returns
ReturnNone == [kind |-> "None", attributes |-> <<>>]
ResourceNotRecognized == [kind |-> "ResourceNotRecognized", attributes |-> <<>>]
AttributeStatement(av) == [kind |-> "AttributeStatement", attributes |-> av]

\* mutant: an unknown index is passed over in silence
NoServiceResult_silent(index) == ReturnNone

\* lines 151-154: no service was found
NoServiceResult(index) == IF index = None THEN ReturnNone ELSE ResourceNotRecognized

\* mutant: the statement is built whatever av holds
StatementOf_always(av) == AttributeStatement(av)

\* lines 185-186
StatementOf(av) == IF av = <<>> THEN ReturnNone ELSE AttributeStatement(av)

\* SimpleAttributeProvider._make_attribute_statement
make_attribute_statement(md, index, cat, member, eid) ==
  LET acs == attribute_consuming_service(md, index) IN
  IF acs = None THEN NoServiceResult(index)
  ELSE StatementOf(EmitAttributes(The(acs).RequestedAttribute, cat, member, eid))

\* the provider's attributes and the arguments of a release are at hand
InitAttr ==
  /\ InitKeys /\ private_key = "k1"
  /\ roles = [r \in RoleNames |-> None]
  /\ catalog \in Catalogs
  /\ InitSite
  /\ \E md \in ReleaseMds, index \in ReleaseIndexes, member \in Members,
        target_eid \in TargetEids :
       call = [op |-> "release_args", md |-> md, index |-> index,
               member |-> member, target_eid |-> target_eid]

\* the call of _make_attribute_statement
MakeAttributeStatement ==
  /\ call.op = "release_args"
  /\ call' = [op |-> "release", md |-> call.md, index |-> call.index,
              member |-> call.member, target_eid |-> call.target_eid,
              result |-> make_attribute_statement(call.md, call.index, catalog,
                           call.member, RequestEid(call.target_eid))]
  /\ UNCHANGED <<now, eid2volatile_info, recent_metadata, private_key, ret, hist>>
  /\ UNCHANGED <<concVars, catalog, roles, siteVars>>

NextAttr == MakeAttributeStatement

SpecAttr == InitAttr /\ [][NextAttr]_vars

\* ------------------------------------------------------------------ roles
\* an object that can implement roles: its physical path and the roles whose
\* interface it provides
Implementor(path, provides) == [path |-> path, provides |-> provides]
Implementors ==
  { Implementor("/idp", {"idpsso", "ap"}), Implementor("/sp", {"spsso"}),
    Implementor("/authn", {"authn"}), Implementor("/both", {"idpsso", "spsso"}) }
\* self.unrestrictedTraverse(p)
ImplementorAt(path) == CHOOSE imp \in Implementors : imp.path = path

\* mutant: a role that is taken is given to the new implementor
RECURSIVE RegisterFrom_overwrite(_, _, _)
RegisterFrom_overwrite(rs, imp, i) ==
  IF i > Len(role2element) THEN [roles |-> rs, error |-> None]
  ELSE LET role == role2element[i] IN
       IF role \notin imp.provides THEN RegisterFrom_overwrite(rs, imp, i + 1)
       ELSE RegisterFrom_overwrite([rs EXCEPT ![role] = Some(imp.path)], imp, i + 1)

\* the loop of register_role_implementor from the i-th role on: the roles as
\* the loop leaves them, and the error it raised
RECURSIVE RegisterFrom(_, _, _)
RegisterFrom(rs, imp, i) ==
  IF i > Len(role2element) THEN [roles |-> rs, error |-> None]
  ELSE LET role == role2element[i] IN
       IF role \notin imp.provides THEN RegisterFrom(rs, imp, i + 1)
       ELSE IF rs[role] # None THEN [roles |-> rs, error |-> Some("ValueError")]
       ELSE RegisterFrom([rs EXCEPT ![role] = Some(imp.path)], imp, i + 1)

\* mutant: the loop stops after the first mapping it removed
UnregisterPath_first(rs, path) ==
  LET held == {k \in 1..Len(role2element) : rs[role2element[k]] = Some(path)} IN
  [r \in RoleNames |->
     IF held # {} /\ r = role2element[CHOOSE k \in held : \A j \in held : k <= j]
     THEN None ELSE rs[r]]

\* the loop of unregister_role_implementor
UnregisterPath(rs, path) ==
  [r \in RoleNames |-> IF rs[r] = Some(path) THEN None ELSE rs[r]]

\* _update: the own metadata is cleared, which notifies the subscriber, and
\* the own keys are deleted
Update ==
  /\ recent_metadata' = [recent_metadata EXCEPT ![entity_id] = None]
  /\ eid2volatile_info' =
       delitem(signature_context_changed(eid2volatile_info, entity_id), entity_id)

\* register_role_implementor(implementor), for an implementor of the site
RegisterRoleImplementor(imp) ==
  LET r == RegisterFrom(roles, imp, 1) IN
  /\ imp.path \notin deleted
  /\ roles' = r.roles
  /\ call' = [op |-> "register", path |-> imp.path, result |-> [error |-> r.error]]
  /\ IF r.error = None THEN Update
     ELSE UNCHANGED <<recent_metadata, eid2volatile_info>>
  /\ UNCHANGED <<now, private_key, ret, hist, concVars, catalog, siteVars>>

\* unregister_role_implementor(implementor)
UnregisterRoleImplementor(imp) ==
  /\ roles' = UnregisterPath(roles, imp.path)
  /\ call' = [op |-> "unregister", path |-> imp.path, result |-> [error |-> None],
              removed |-> {r \in RoleNames : roles[r] = Some(imp.path)},
              cleared |-> recent_metadata[entity_id] # None]
  /\ Update
  /\ UNCHANGED <<now, private_key, ret, hist, concVars, catalog, siteVars>>

\* mutant: nothing guards the deletion
delete_guard_open(path) == FALSE

\* delete_guard(path): a role still maps to the path
delete_guard(path) == \E r \in RoleNames : roles[r] = Some(path)

\* the deletion of a role implementor from the site: refused while the guard
\* holds
DeleteImplementor(imp) ==
  /\ imp.path \notin deleted
  /\ IF delete_guard(imp.path)
     THEN /\ call' = [op |-> "delete", path |-> imp.path,
                      result |-> [error |-> Some("ProtectedDeletionError")]]
          /\ UNCHANGED deleted
     ELSE /\ call' = [op |-> "delete", path |-> imp.path, result |-> [error |-> None]]
          /\ deleted' = deleted \cup {imp.path}
  /\ UNCHANGED <<now, eid2volatile_info, recent_metadata, private_key, ret, hist>>
  /\ UNCHANGED <<concVars, catalog, roles, entities, placeVars>>

\* ------------------------------------------------------------------ export
\* the validity of the own metadata (auth.metadata_validity), in clock ticks
metadata_validity == 1
\* auth.certificate and auth.future_certificate: the latter is not set
certificate == Some("cert.der")
future_certificate == None

\* the roles r the authority has a method gen_metadata_<r> for
GenMetadataRoles == {"idpsso", "spsso"}

\* lines 201-212: a signing KeyDescriptor for each certificate that is set
KeyDescriptors ==
  (IF certificate # None THEN <<The(certificate)>> ELSE <<>>)
    \o (IF future_certificate # None THEN <<The(future_certificate)>> ELSE <<>>)

\* gen_metadata_idpsso / gen_metadata_spsso: whether the implementor's
\* attribute metadata is added to the role descriptor
AddsAttributeMetadata(role, imp) == role = "spsso" \/ "ap" \in imp.provides

\* the role descriptor of role r, implemented at path p
RoleDescriptor(r, p) ==
  [role |-> r, implementor |-> p, KeyDescriptor |-> KeyDescriptors,
   attributes |-> AddsAttributeMetadata(r, ImplementorAt(p))]

\* what _export_own_metadata gives: an error raised or the document
ExportError(e) == [error |-> Some(e), document |-> None]
ExportDocument(rds) ==
  [error |-> None,
   document |-> Some([entityID |-> entity_id,
                      validUntil |-> now + metadata_validity,
                      descriptors |-> rds])]

\* the loop of _export_own_metadata from the i-th role on, rds the role
\* descriptors appended so far (rno = Len(rds)), and its end
RECURSIVE ExportFrom(_, _)
ExportFrom(i, rds) ==
  IF i > Len(role2element)
  THEN IF Len(rds) = 0 THEN ExportError("ValueError") ELSE ExportDocument(rds)
  ELSE LET r == role2element[i] IN
       IF roles[r] = None \/ r = "ap" THEN ExportFrom(i + 1, rds)
       ELSE IF r \notin GenMetadataRoles THEN ExportError("AttributeError")
       ELSE ExportFrom(i + 1, Append(rds, RoleDescriptor(r, The(roles[r]))))

\* _export_own_metadata()
ExportOwnMetadata ==
  /\ call' = [op |-> "export", path |-> "", result |-> ExportFrom(1, <<>>)]
  /\ UNCHANGED <<now, eid2volatile_info, recent_metadata, private_key, ret, hist>>
  /\ UNCHANGED <<concVars, catalog, roles, siteVars>>

\* the own metadata the repository holds is valid at time t
OwnDocValid(doc, t) == t <= doc.validUntil

\* export_own_metadata(): the own entity's recent metadata, which the
\* repository keeps while it is valid and else recomputes by
\* OwnEntity.get_metadata_document, i.e. _export_own_metadata; taking a new
\* document notifies the subscriber that deletes the own keys
export_own_metadata ==
  LET cached == recent_metadata[entity_id] IN
  /\ IF cached # None /\ OwnDocValid(The(cached), now)
     THEN /\ call' = [op |-> "export_own_metadata", path |-> "",
                      result |-> [error |-> None, document |-> cached]]
          /\ UNCHANGED <<recent_metadata, eid2volatile_info>>
     ELSE LET r == ExportFrom(1, <<>>) IN
          /\ call' = [op |-> "export_own_metadata", path |-> "", result |-> r]
          /\ IF r.error = None
             THEN /\ recent_metadata' =
                       [recent_metadata EXCEPT ![entity_id] = r.document]
                  /\ eid2volatile_info' =
                       signature_context_changed(eid2volatile_info, entity_id)
             ELSE UNCHANGED <<recent_metadata, eid2volatile_info>>
  /\ UNCHANGED <<now, private_key, ret, hist, concVars, catalog, roles, siteVars>>

NextAuth ==
  \/ Tick /\ UNCHANGED hist
  \/ GetItem(entity_id) /\ UNCHANGED hist
  \/ \E imp \in Implementors : RegisterRoleImplementor(imp)
  \/ \E imp \in Implementors : UnregisterRoleImplementor(imp)
  \/ \E imp \in Implementors : DeleteImplementor(imp)
  \/ ExportOwnMetadata
  \/ export_own_metadata

SpecAuth == Init /\ [][NextAuth]_vars

\* --------------------------------------------------------------- lifecycle
\* the containers the authority can be in, and what getSite() gives while an
\* event is handled: None, a site with a persistent site manager (it has a
\* _p_jar) or a site whose site manager is not persistent
Parents == {"A", "B"}
ParentOptions == {None} \cup {Some(c) : c \in Parents}
Sites == {None, Some("persistent"), Some("transient")}

\* what move_handler does: the error it raises, the registration it leaves
\* and whether it added an OwnEntity
Raised(e) == [error |-> Some(e), utility |-> utility, added |-> FALSE]
Handled(u, added) == [error |-> None, utility |-> u, added |-> added]

\* mutant: a removal is never refused
removal_guard_open(newParent) == FALSE

\* line 359: o.roles and e.newParent is None
removal_guard(newParent) ==
  (\E r \in RoleNames : roles[r] # None) /\ newParent = None

\* line 372: e.oldParent is None
is_new(oldParent) == oldParent = None

\* move_handler(o, e) for e.oldParent and e.newParent under the site getSite()
\* gives; the registration tracked is the one with the persistent site
\* manager, the only one registerUtility is reached for
move_handler(site, oldParent, newParent) ==
  IF site = None
  THEN IF newParent = None THEN Handled(utility, FALSE) ELSE Raised("ValueError")
  ELSE IF oldParent # None /\ removal_guard(newParent) THEN Raised("ValueError")
  ELSE LET unregistered ==
             IF oldParent # None /\ site = Some("persistent") THEN FALSE ELSE utility
       IN IF newParent = None THEN Handled(unregistered, FALSE)
          ELSE IF site # Some("persistent") THEN Raised("ValueError")
          ELSE Handled(TRUE, is_new(oldParent))

\* the authority is added (parent None), moved or renamed, or removed
\* (newParent None), and the event is handled; an error the handler raises
\* aborts the transaction, so that the authority stays where it was
ObjectMoved(site, newParent) ==
  LET r == move_handler(site, parent, newParent) IN
  /\ parent # None \/ newParent # None
  /\ parent = None => own_entity_adds < MaxAdds
  /\ call' = [op |-> "moved", site |-> site, oldParent |-> parent,
              newParent |-> newParent, result |-> [error |-> r.error]]
  /\ parent' = IF r.error = None THEN newParent ELSE parent
  /\ utility' = r.utility
  /\ entities' = IF r.added THEN entities \cup {entity_id} ELSE entities
  /\ own_entity_adds' = IF r.added THEN own_entity_adds + 1 ELSE own_entity_adds
  /\ UNCHANGED <<now, eid2volatile_info, recent_metadata, private_key, ret, hist>>
  /\ UNCHANGED <<concVars, catalog, roles, deleted>>

\* a new authority: in no container, not registered, without entities
InitMove ==
  /\ InitKeys /\ private_key = "k1"
  /\ catalog = <<>>
  /\ roles = [r \in RoleNames |-> None]
  /\ call = [op |-> "none"]
  /\ entities = {} /\ deleted = {}
  /\ parent = None /\ utility = FALSE /\ own_entity_adds = 0

\* role implementors find the authority as the utility of their site
NextMove ==
  \/ \E site \in Sites, newParent \in ParentOptions : ObjectMoved(site, newParent)
  \/ \E imp \in Implementors : utility /\ RegisterRoleImplementor(imp)
  \/ \E imp \in Implementors : utility /\ UnregisterRoleImplementor(imp)

SpecMove == InitMove /\ [][NextMove]_vars

\* ------------------------------------------------------------------ claims
\* the step is a call of __getitem__(eid)
IsGetItem(eid) == ret'.op = "get" /\ ret'.eid = eid /\ now' = now /\ GetItem(eid)

\* the keys a recomputation for eid yields from the current key file or the
\* repository's current metadata
CurrentKeys(eid) ==
  IF eid = entity_id THEN <<[kind |-> "private", data |-> private_key]>>
  ELSE ForeignKeys(The(recent_metadata[eid]))

\* C1: a get(E) that directly follows invalidate(E) recomputes: it returns
\* the keys of the current key file (own id) or of the repository's current
\* metadata (foreign id), never the keys of the dropped slot.
C1_InvalidateThenGetRecomputes ==
  [][\A eid \in EntityIds :
      (ret.op = "del" /\ ret.eid = eid /\ IsGetItem(eid))
        => /\ ret'.recomputed
           /\ ret'.keys = Some(CurrentKeys(eid)')
           /\ eid2volatile_info'[eid] # None
           /\ The(eid2volatile_info'[eid]).keys = CurrentKeys(eid)']_vars

C1_Witness ==
  /\ ret.op = "get" /\ hist.prev = <<"del", ret.eid>> /\ ret.recomputed
  /\ ret.eid \in ForeignIds
  /\ ret.keys # Some(<<>>)

\* C2: the slot of the authority's own id always has validUntil = None; a
\* get(own) on an existing slot returns the cached key without recomputing
\* whatever the clock shows; the slot changes only by being invalidated.
C2_OwnSlotNeverExpires ==
  [][LET slot == eid2volatile_info[entity_id] IN
     /\ eid2volatile_info'[entity_id] # None
          => The(eid2volatile_info'[entity_id]).validUntil = None
     /\ (slot # None /\ IsGetItem(entity_id))
          => /\ ~ret'.recomputed
             /\ ret'.keys = Some(The(slot).keys)
             /\ eid2volatile_info'[entity_id] = slot
     /\ (slot # None /\ eid2volatile_info'[entity_id] # slot)
          => /\ eid2volatile_info'[entity_id] = None
             /\ ret'.op = "del" /\ ret'.eid = entity_id]_vars

C2_Witness ==
  /\ ret.op = "get" /\ ret.eid = entity_id /\ ~ret.recomputed
  /\ hist.at = MaxTime
  /\ eid2volatile_info[entity_id] # None
  /\ The(eid2volatile_info[entity_id]).keys # OwnKeys(private_key)

\* C3: get(E) serves the cached keys without recomputing exactly when E has a
\* slot whose validUntil is None or not before now (now = validUntil is still
\* served); otherwise it recomputes and replaces the slot.
C3_CacheHitIffValid ==
  [][\A eid \in EntityIds :
      IsGetItem(eid) =>
        LET slot == eid2volatile_info[eid]
            hit == /\ slot # None
                   /\ \/ The(slot).validUntil = None
                      \/ \E t \in now..(MaxTime + default_validity) :
                           The(slot).validUntil = Some(t)
        IN /\ hit <=> ~ret'.recomputed
           /\ hit => /\ ret'.keys = Some(The(slot).keys)
                      /\ eid2volatile_info' = eid2volatile_info
           /\ ~hit => /\ eid2volatile_info'[eid] # None
                       /\ ret'.keys = Some(The(eid2volatile_info'[eid]).keys)
                       /\ ret'.keys = Some(CurrentKeys(eid)')]_vars

\* a get served from the cache at the very instant the slot expires
C3_Witness ==
  /\ ret.op = "get" /\ ~ret.recomputed /\ ret.eid \in ForeignIds
  /\ eid2volatile_info[ret.eid] # None
  /\ The(eid2volatile_info[ret.eid]).validUntil = Some(hist.at)

\* C4: once a change of E's metadata has returned (fetch_metadata or
\* clear_metadata, which drop E's slot), a get(E) that starts afterwards and
\* is served from the cache gets keys of the repository's current metadata,
\* never keys an in-flight get(E) computed from the metadata before the change.
C4_NoStaleKeysAfterChange ==
  \A eid \in ForeignIds :
    (ret.op = "get" /\ ret.eid = eid /\ ~ret.recomputed)
      => /\ recent_metadata[eid] # None
         /\ ret.keys = Some(ForeignKeys(The(recent_metadata[eid])))

\* the services of all SP descriptors of md, in document order
RECURSIVE AllServices(_)
AllServices(md) == IF md = <<>> THEN <<>> ELSE Head(md) \o AllServices(Tail(md))

\* the services of the first SP descriptor of md that declares any
RECURSIVE FirstDeclared(_)
FirstDeclared(md) ==
  IF md = <<>> THEN <<>>
  ELSE IF Head(md) # <<>> THEN Head(md) ELSE FirstDeclared(Tail(md))

MinOf(S) == CHOOSE i \in S : \A j \in S : i <= j

\* C5: with no requested index the selector returns, of the services the SP
\* descriptor declares, the first with isDefault true; if there is none, the
\* first whose isDefault is not set (an explicit false is not "not set"); if
\* there is none either, the first service; and None without services.
C5_TieBreakOrder ==
  (call.op = "select" /\ call.index = None)
    => LET svcs == FirstDeclared(call.md)
           defaults == {i \in 1..Len(svcs) : svcs[i].isDefault = Some(TRUE)}
           unsets == {i \in 1..Len(svcs) : svcs[i].isDefault = None}
       IN call.result =
            IF svcs = <<>> THEN None
            ELSE IF defaults # {} THEN Some(svcs[MinOf(defaults)])
            ELSE IF unsets # {} THEN Some(svcs[MinOf(unsets)])
            ELSE Some(svcs[1])

\* [{1, false}, {0, unset}, {2, false}] -> the service of index 0
C5_Witness ==
  /\ call.op = "select" /\ call.index = None
  /\ call.md = << <<Service(1, Some(FALSE), <<>>), Service(0, None, <<>>),
                    Service(2, Some(FALSE), <<>>)>> >>
  /\ call.result = Some(Service(0, None, <<>>))

\* C6: with a requested index i the selector returns a service of index i
\* when the metadata declares one and None otherwise, whatever the isDefault
\* flags are.
C6_RequestedIndexOnly ==
  (call.op = "select" /\ call.index # None)
    => LET svcs == AllServices(call.md)
           i == The(call.index)
       IN IF \E k \in 1..Len(svcs) : svcs[k].index = i
          THEN /\ call.result # None
               /\ The(call.result).index = i
               /\ \E k \in 1..Len(svcs) : svcs[k] = The(call.result)
          ELSE call.result = None

\* index 2 is requested, the SP declares a default and an unset service
C6_Witness ==
  /\ call.op = "select" /\ call.index = Some(2)
  /\ call.md = << <<Service(0, None, <<>>), Service(1, Some(TRUE), <<>>)>> >>
  /\ call.result = None

\* the service a release selected, and the attribute of the provider each
\* attribute it requests names
ReleaseService == attribute_consuming_service(call.md, call.index)
ReleaseHit(ra) == CatalogGet(catalog, RequestedKey(ra))

\* C7: a release with a requested index that no service of the metadata has
\* yields ResourceNotRecognized and no attribute; a release without requested
\* index for metadata without any service returns None.
C7_NoServiceOutcomes ==
  (call.op = "release" /\ ReleaseService = None)
    => /\ call.index # None => call.result = ResourceNotRecognized
       /\ call.index = None => call.result = ReturnNone
       /\ call.result.attributes = <<>>

\* index 1 is requested, the SP declares the service of index 0 only
C7_Witness ==
  /\ call.op = "release" /\ call.index = Some(1)
  /\ Len(call.md) = 1 /\ Len(call.md[1]) = 1 /\ call.md[1][1].index = 0
  /\ call.result.kind = "ResourceNotRecognized"

\* C8: a release never returns a statement without attributes: when the
\* selected service requests nothing the provider has, the result is None;
\* otherwise it is a statement with one attribute per request that hit.
C8_NoEmptyStatement ==
  /\ (call.op = "release" /\ call.result.kind = "AttributeStatement")
       => call.result.attributes # <<>>
  /\ (call.op = "release" /\ ReleaseService # None)
       => LET ras == The(ReleaseService).RequestedAttribute
              hits == {i \in 1..Len(ras) : ReleaseHit(ras[i]) # None}
          IN IF hits = {} THEN call.result = ReturnNone
             ELSE /\ call.result.kind = "AttributeStatement"
                  /\ Len(call.result.attributes) = Cardinality(hits)

\* two attributes are requested, the provider has one attribute, neither hits
C8_Witness ==
  /\ call.op = "release" /\ ReleaseService # None
  /\ Len(The(ReleaseService).RequestedAttribute) = 2
  /\ Len(catalog) = 1
  /\ \A i \in 1..2 : ReleaseHit(The(ReleaseService).RequestedAttribute[i]) = None
  /\ call.result = ReturnNone

\* the release of the one attribute ra a service requests, which names the
\* string attribute d of the provider
ReleaseOne(ra, d) ==
  /\ call.op = "release" /\ ReleaseService # None
  /\ The(ReleaseService).RequestedAttribute = <<ra>>
  /\ ReleaseHit(ra) = Some(d)
  /\ d.type = "string"

\* the statement of the one attribute with the one value text
OneValue(text) ==
  /\ call.result.kind = "AttributeStatement"
  /\ Len(call.result.attributes) = 1
  /\ call.result.attributes[1].values = <<AttributeValue("string", "text", text)>>

\* C9: for a string attribute of the provider and the one requested attribute
\* of its format and name, release gives one Attribute with one value: without
\* evaluator the scalar property of the subject named by the ID of the
\* provider's attribute (not by its title), with an evaluator the evaluator's
\* result for (subject, attribute, entity id).
C9_ValueByIdOrEvaluator ==
  \A ra \in RequestedAttributes, d \in ProvidedAttributes :
    ReleaseOne(ra, d)
      => /\ (d.evaluator = None /\ call.member.props[d.id].kind # "list")
              => OneValue(call.member.props[d.id].val[1])
         /\ d.evaluator # None
              => OneValue(Evaluate(The(d.evaluator), call.member, d,
                                   RequestEid(call.target_eid)).val[1])

\* the attribute of title "mail" has the id "email": the value released is
\* the property "email"
C9_Witness ==
  /\ call.member.name = "alice"
  /\ \E ra \in RequestedAttributes :
       ReleaseOne(ra, Provided("email", F_uri, "mail", "string", None))
  /\ OneValue("alice@example.org")

\* C9 as stated: the value is the subject's property "mail" for an attribute
\* of title "mail"
C9_ValueByTitle ==
  \A ra \in RequestedAttributes, d \in ProvidedAttributes :
    (ReleaseOne(ra, d) /\ d.title = "mail" /\ d.evaluator = None
       /\ call.member.props["mail"].kind # "list")
      => OneValue(call.member.props["mail"].val[1])

\* the roles other than "ap" that are registered
RegisteredNonAp == {r \in RoleNames \ {"ap"} : roles[r] # None}

\* C10: the export of the own metadata succeeds exactly when a role other
\* than "ap" is registered: without one it fails with the configuration
\* error (ValueError) and gives no document; with one the document has
\* exactly one role descriptor for each registered role other than "ap".
C10_ExportIffNonApRole ==
  call.op = "export"
    => IF RegisteredNonAp = {}
       THEN call.result = ExportError("ValueError")
       ELSE /\ call.result.error = None
            /\ call.result.document # None
            /\ LET rds == The(call.result.document).descriptors
               IN /\ Len(rds) = Cardinality(RegisteredNonAp)
                  /\ \A r \in RegisteredNonAp :
                       Cardinality({k \in 1..Len(rds) : rds[k].role = r}) = 1

\* the step is the call register_role_implementor(imp)
IsRegister(imp) ==
  call'.op = "register" /\ call'.path = imp.path /\ RegisterRoleImplementor(imp)

\* C11: a registration for a role that already maps to a path (the same path
\* included) fails with the role-already-registered error (ValueError) and
\* leaves the mappings that exist as they are; a registration for roles that
\* are all unmapped maps each of them to the implementor's path; and after
\* unregister(path) removed the roles of their holder, a registration for
\* roles among them succeeds.
C11_RegisterRefusesTakenRole ==
  [][\A imp \in Implementors :
       IsRegister(imp)
         => LET taken == {r \in imp.provides : roles[r] # None} IN
            /\ taken # {}
                 => /\ call'.result.error = Some("ValueError")
                    /\ \A r \in RoleNames : roles[r] # None => roles'[r] = roles[r]
            /\ taken = {}
                 => /\ call'.result.error = None
                    /\ \A r \in imp.provides : roles'[r] = Some(imp.path)
                    /\ \A r \in RoleNames \ imp.provides : roles'[r] = roles[r]
            /\ (call.op = "unregister" /\ imp.provides \subseteq call.removed)
                 => /\ call'.result.error = None
                    /\ \A r \in imp.provides : roles'[r] = Some(imp.path)]_vars

\* /both asks for idpsso and spsso while /sp holds spsso: the call failed and
\* spsso still maps to /sp
C11_Witness ==
  /\ call.op = "register" /\ call.path = "/both"
  /\ call.result.error = Some("ValueError")
  /\ roles["spsso"] = Some("/sp")

C13_OnlyOwnSlotUnbounded ==
  \A eid \in EntityIds :
    eid2volatile_info[eid] # None
      => LET info == The(eid2volatile_info[eid]) IN
         /\ info.validUntil = None => eid = entity_id
         /\ eid = entity_id => info.validUntil = None
         /\ eid \in ForeignIds
              => /\ info.validUntil # None
                 /\ recent_metadata[eid] # None
                 /\ info.validUntil = The(recent_metadata[eid]).validUntil

\* both slots are filled: the own one never expires, the foreign one expires
\* with its metadata
C13_Witness ==
  /\ eid2volatile_info[entity_id] # None
  /\ The(eid2volatile_info[entity_id]).validUntil = None
  /\ eid2volatile_info["e1"] # None
  /\ The(eid2volatile_info["e1"]).validUntil = Some(1)
  /\ now = 1

\* the (validUntil, keys) one sequential get(eid) computes and stores
SequentialInfo(eid) ==
  IF eid = entity_id THEN [validUntil |-> None, keys |-> OwnKeys(private_key)]
  ELSE LET doc == The(recent_metadata[eid])
       IN [validUntil |-> doc.validUntil, keys |-> ForeignKeys(doc)]

\* C14: while concurrent get(E) calls interleave and the key material and the
\* metadata stay as they are, every slot that can be observed holds the
\* (validUntil, keys) of one computation as a whole, and once a call that
\* recomputed has returned the slot is what one sequential get(E) stores.
C14_SlotIsOneComputation ==
  /\ \A eid \in EntityIds :
       eid2volatile_info[eid] # None
         => eid2volatile_info[eid] = Some(SequentialInfo(eid))
  /\ (ret.op = "get" /\ ret.recomputed)
       => /\ eid2volatile_info[ret.eid] = Some(SequentialInfo(ret.eid))
          /\ ret.keys = Some(SequentialInfo(ret.eid).keys)

\* both threads computed the keys of e1 and the first has stored them, the
\* second is about to store
C14_Witness ==
  /\ ret.op = "get" /\ ret.eid = "e1" /\ ret.recomputed
  /\ \E t \in Threads : pc[t] = "store" /\ The(local[t]).eid = "e1"
  /\ eid2volatile_info["e1"] # None
  /\ Len(The(eid2volatile_info["e1"]).keys) = 2

\* C15: when a get(E) that had to recompute returns, the cache holds a slot
\* for E with the keys returned and the validUntil just computed (None for
\* the own entity, that of the recent metadata for a foreign one), whatever
\* slot there was before, also when the fetch of the metadata removed the
\* slot during the call.
C15_RecomputedSlotStored ==
  [][\A eid \in EntityIds :
      (IsGetItem(eid) /\ ret'.recomputed)
        => /\ eid2volatile_info'[eid] # None
           /\ ret'.keys = Some(The(eid2volatile_info'[eid]).keys)
           /\ The(eid2volatile_info'[eid]).validUntil =
                IF eid = entity_id THEN None
                ELSE The(recent_metadata'[eid]).validUntil]_vars

\* a get of e1 followed a get of e1 and had to recompute: the slot and the
\* metadata had expired, and the fetch removed the slot during the call
C15_Witness ==
  /\ ret.op = "get" /\ ret.eid = "e1" /\ ret.recomputed
  /\ hist.prev = <<"get", "e1">>
  /\ eid2volatile_info["e1"] # None
  /\ The(The(eid2volatile_info["e1"]).validUntil) >= hist.at

\* the first position of x in the sequence seq
FirstIndex(seq, x) == MinOf({i \in 1..Len(seq) : seq[i] = x})

\* C16: the keys of a foreign entity's slot are one verification key for
\* each distinct signing certificate of the role sections of its recent
\* metadata, none twice and none missing, in the order in which the
\* certificates first occur when the roles are gone through, and the slot's
\* validUntil is the validUntil of that metadata.
C16_ForeignKeysDistinctCerts ==
  \A eid \in ForeignIds :
    eid2volatile_info[eid] # None
      => LET info == The(eid2volatile_info[eid])
             doc == The(recent_metadata[eid])
             byRole == AllRoleCerts(doc, 1)
             keys == info.keys
         IN /\ \A i \in 1..Len(keys) : keys[i].kind = "cert"
            /\ {keys[i].data : i \in 1..Len(keys)}
                 = {doc.certs[i].cert : i \in 1..Len(doc.certs)}
            /\ \A i, j \in 1..Len(keys) : i # j => keys[i].data # keys[j].data
            /\ \A i, j \in 1..Len(keys) :
                 i < j => FirstIndex(byRole, keys[i].data) < FirstIndex(byRole, keys[j].data)
            /\ info.validUntil = doc.validUntil

\* the metadata names c2 and c1 for spsso and c1 for idpsso: the keys are
\* those of c1 and c2, idpsso being the first role
C16_Witness ==
  /\ eid2volatile_info["e1"] # None
  /\ recent_metadata["e1"] # None
  /\ Len(The(recent_metadata["e1"]).certs) = 3
  /\ The(eid2volatile_info["e1"]).keys
       = <<[kind |-> "cert", data |-> "c1"], [kind |-> "cert", data |-> "c2"]>>

\* the step is a call get(eid), whether it returns or raises
IsGetCall(eid) ==
  ret'.eid = eid /\ ret'.op \in {"get", "get_failed"} /\ now' = now /\ GetItem(eid)

\* the key material get(eid) would load in the state cannot be loaded
Unloadable(eid) ==
  IF eid = entity_id THEN private_key = "unreadable"
  ELSE /\ recent_metadata[eid] # None
       /\ \E i \in 1..Len(The(recent_metadata[eid]).certs) :
            The(recent_metadata[eid]).certs[i].cert = "bad"

\* C17 as stated: a get(E) that fails to load the key material leaves the
\* whole cache, the slot of E included, as it was.
C17_FailedGetLeavesCache ==
  [][\A eid \in EntityIds :
      (IsGetCall(eid) /\ ret'.op = "get_failed")
        => eid2volatile_info' = eid2volatile_info]_vars

\* C17: a get(E) that has to load key material that cannot be loaded fails;
\* it stores no slot for E (E's slot is afterwards the one before, which had
\* expired, or it is gone, removed by the notification of the metadata fetch
\* the call made) and leaves the other entities' slots as they were; after
\* the failure E has no valid slot, so that the next get(E) recomputes, and
\* it returns the keys as soon as the material can be loaded.
C17_FailedGetStoresNothing ==
  [][\A eid \in EntityIds :
      IsGetCall(eid)
        => /\ ret'.op = "get_failed"
                => /\ Unloadable(eid)'
                   /\ eid2volatile_info'[eid] \in {None, eid2volatile_info[eid]}
                   /\ \A f \in EntityIds \ {eid} :
                        eid2volatile_info'[f] = eid2volatile_info[f]
                   /\ ~CacheValid(eid2volatile_info'[eid], now)
           /\ (ret'.op = "get" /\ ret'.recomputed) => ~Unloadable(eid)'
           /\ (ret.op = "get_failed" /\ ret.eid = eid /\ ~Unloadable(eid)')
                => /\ ret'.op = "get" /\ ret'.recomputed
                   /\ ret'.keys = Some(CurrentKeys(eid)')]_vars

\* a get of e1 followed a get of e1 and failed: the metadata it fetched names
\* a certificate that cannot be loaded, and the fetch removed the expired slot
C17_Witness ==
  /\ ret.op = "get_failed" /\ ret.eid = "e1"
  /\ hist.prev = <<"get", "e1">>
  /\ eid2volatile_info["e1"] = None
  /\ Unloadable("e1")

\* the step is the call invalidate(eid)
IsDelItem(eid) == ret'.op = "del" /\ ret'.eid = eid /\ DelItem(eid)

\* C18: get(E) and invalidate(E) leave the slot of every other entity id as
\* it was (present or not, with its validUntil and keys); invalidate(E)
\* leaves no slot for E, and for an absent slot it changes nothing and
\* returns without error.
C18_OnlyOwnSlotTouched ==
  [][\A eid \in EntityIds :
      /\ IsGetCall(eid)
           => \A f \in EntityIds \ {eid} : eid2volatile_info'[f] = eid2volatile_info[f]
      /\ IsDelItem(eid)
           => /\ \A f \in EntityIds \ {eid} :
                   eid2volatile_info'[f] = eid2volatile_info[f]
              /\ eid2volatile_info'[eid] = None
              /\ eid2volatile_info[eid] = None
                   => eid2volatile_info' = eid2volatile_info]_vars

\* e1 was invalidated twice in a row, the second time without a slot, while
\* the own entity keeps its slot
C18_Witness ==
  /\ ret.op = "del" /\ ret.eid = "e1"
  /\ hist.prev = <<"del", "e1">>
  /\ eid2volatile_info[entity_id] # None
  /\ eid2volatile_info["e1"] = None

\* the step is the addition of the entity eid, or its deletion
IsSetOb(eid) == ret'.op = "add" /\ ret'.eid = eid /\ SetOb(eid)
IsDelOb(eid) ==
  ret'.op = "delete" /\ ret'.eid = eid /\ eid \in entities /\ DelOb(eid)

C20_ExportFollowsRegistry ==
  (call.op = "export_own_metadata" /\ call.result.document # None)
    => LET current == ExportFrom(1, <<>>) IN
       /\ current.error = None
       /\ The(call.result.document).descriptors = The(current.document).descriptors

\* the step is the call unregister_role_implementor(imp)
IsUnregister(imp) ==
  call'.op = "unregister" /\ call'.path = imp.path /\ UnregisterRoleImplementor(imp)

\* C21: unregister(path) removes exactly the role mappings whose path equals
\* path, all of them when the implementor holds several roles, and leaves
\* every mapping to a different path unchanged; it invalidates the own
\* metadata and the own keys also when nothing was removed.
C21_UnregisterRemovesExactlyPath ==
  [][\A imp \in Implementors :
       IsUnregister(imp)
         => /\ \A r \in RoleNames :
                 roles'[r] = IF roles[r] = Some(imp.path) THEN None ELSE roles[r]
            /\ call'.result.error = None
            /\ recent_metadata'[entity_id] = None
            /\ eid2volatile_info'[entity_id] = None]_vars

\* /authn, which holds no role, was unregistered while /idp holds idpsso and
\* ap and the own metadata was cached: nothing was removed, /idp keeps both
\* roles and the own metadata and keys are gone
C21_Witness ==
  /\ call.op = "unregister" /\ call.path = "/authn" /\ call.removed = {}
  /\ call.cleared
  /\ roles["idpsso"] = Some("/idp") /\ roles["ap"] = Some("/idp")
  /\ recent_metadata[entity_id] = None /\ eid2volatile_info[entity_id] = None

\* the requested attributes of the selected service, the positions of those
\* whose (format or "unspecified", name) is a key of the catalog, and the
\* position of the n-th of them
ReleaseRequested == The(ReleaseService).RequestedAttribute
RequestedFormat(ra) == IF ra.NameFormat # None THEN The(ra.NameFormat) ELSE F_unspecified
IsCatalogKey(ra) ==
  \E i \in 1..Len(catalog) :
    catalog[i].format = RequestedFormat(ra) /\ catalog[i].title = ra.Name
RequestedHits == {k \in 1..Len(ReleaseRequested) : IsCatalogKey(ReleaseRequested[k])}
NthHit(n) == CHOOSE k \in RequestedHits : Cardinality({j \in RequestedHits : j <= k}) = n

\* C22: the attributes a release emits are exactly the requested attributes
\* of the selected service whose (format or default "unspecified" format,
\* name) is a key of the catalog, in the order requested; a miss skips that
\* attribute only and the attributes requested after it are still emitted.
C22_EmitsExactlyRequestedHits ==
  (call.op = "release" /\ ReleaseService # None)
    => LET av == call.result.attributes IN
       /\ Len(av) = Cardinality(RequestedHits)
       /\ \A n \in 1..Len(av) :
            /\ av[n].NameFormat = RequestedFormat(ReleaseRequested[NthHit(n)])
            /\ av[n].Name = ReleaseRequested[NthHit(n)].Name

\* the service requests two attributes, the provider lacks the first and has
\* the second: the statement holds the second alone
C22_Witness ==
  /\ call.op = "release" /\ ReleaseService # None
  /\ Len(ReleaseRequested) = 2 /\ RequestedHits = {2}
  /\ call.result.kind = "AttributeStatement"
  /\ Len(call.result.attributes) = 1
  /\ call.result.attributes[1].Name = ReleaseRequested[2].Name

\* C23: every emitted Attribute has NameFormat equal to the matched
\* descriptor's format, Name equal to its title, and FriendlyName equal to the
\* requested attribute's friendlyName when that is non-empty and to the
\* descriptor's id otherwise.
C23_AttributeNaming ==
  (call.op = "release" /\ ReleaseService # None)
    => LET av == call.result.attributes IN
       \A n \in 1..Len(av) :
         \E k \in RequestedHits :
           /\ Cardinality({j \in RequestedHits : j <= k}) = n
           /\ LET ra == ReleaseRequested[k]
                  d == The(ReleaseHit(ra))
              IN /\ av[n].NameFormat = d.format
                 /\ av[n].Name = d.title
                 /\ av[n].FriendlyName =
                      IF ra.FriendlyName \in {None, Some("")} THEN d.id
                      ELSE The(ra.FriendlyName)

\* mail is requested twice, with an empty friendly name and with "fn", of a
\* provider whose attribute "email" has the title "mail": the friendly names
\* emitted are "email" and "fn"
C23_Witness ==
  /\ call.op = "release" /\ ReleaseService # None
  /\ Len(call.result.attributes) = 2
  /\ ReleaseRequested[1].FriendlyName = Some("")
  /\ ReleaseRequested[2].FriendlyName = Some("fn")
  /\ call.result.attributes[1].Name = "mail"
  /\ call.result.attributes[1].FriendlyName = "email"
  /\ call.result.attributes[2].FriendlyName = "fn"

\* the step is the call _delOb(eid)
IsDelCall(eid) ==
  ret'.op \in {"delete", "delete_failed"} /\ ret'.eid = eid /\ DelOb(eid)

\* C24: the deletion of the authority's own entity through the entity manager
\* fails with the protected-deletion error and leaves the set of managed
\* entities unchanged; the deletion of another managed entity removes exactly
\* that entity; the deletion of an unknown id changes nothing and raises
\* nothing.
C24_DelObProtectedUnprotectedUnknown ==
  [][\A eid \in SiteIds :
       IsDelCall(eid)
         => IF eid \notin entities
            THEN /\ ret'.op = "delete"
                 /\ UNCHANGED <<entities, recent_metadata, eid2volatile_info>>
            ELSE IF eid = entity_id
            THEN /\ ret'.op = "delete_failed"
                 /\ UNCHANGED <<entities, recent_metadata, eid2volatile_info>>
            ELSE /\ ret'.op = "delete"
                 /\ entities' = entities \ {eid}
                 /\ eid \in entities /\ eid \notin entities']_vars

\* the deletion of the own entity was refused while two foreign entities are
\* managed: all three are still there
C24_Witness ==
  /\ ret.op = "delete_failed" /\ ret.eid = entity_id
  /\ entities = SiteIds

\* C25: a register call that fails because one of the implementor's roles is
\* already taken leaves the whole role registry exactly as it was before the
\* call: no mapping for another role of the same implementor has been added.
C25_FailedRegisterLeavesRegistry ==
  [][\A imp \in Implementors :
       (IsRegister(imp) /\ call'.result.error # None) => roles' = roles]_vars

\* the step is an event with e.newParent = newParent handled under site
IsMoved(site, newParent) ==
  /\ call'.op = "moved" /\ call'.site = site /\ call'.newParent = newParent
  /\ ObjectMoved(site, newParent)
HasRoles == \E r \in RoleNames : roles[r] # None

\* C26 as stated: over any sequence of add, move and delete events for an
\* authority, a removal is refused with an error, the utility registration
\* left intact, whenever the role registry is non-empty; an add or move ends
\* with the authority registered as utility; and the OwnEntity is added
\* exactly once, on the first add, never again.
C26_MoveHandlerLifecycle ==
  [][\A site \in Sites, newParent \in ParentOptions :
       IsMoved(site, newParent)
         => /\ (newParent = None /\ HasRoles)
                 => /\ call'.result.error # None
                    /\ utility' = utility /\ parent' = parent
            /\ (newParent # None /\ call'.result.error = None) => utility'
            /\ own_entity_adds' =
                 IF parent = None /\ own_entity_adds = 0 /\ call'.result.error = None
                 THEN 1 ELSE own_entity_adds]_vars

\* C26: handled under an active site, the removal of an authority whose role
\* registry is non-empty is refused with an error and leaves it where it is
\* and registered; handled without active site, a removal goes through and
\* leaves the registration as it is, roles or not; an add or move goes
\* through only under a site with a persistent site manager, ends with the
\* authority registered, and is refused with nothing changed otherwise; the
\* OwnEntity is added by every add that goes through (oldParent absent), so
\* once for an authority added once, and by no move or removal.
C26_MoveHandlerLifecycleWithSite ==
  [][\A site \in Sites, newParent \in ParentOptions :
       IsMoved(site, newParent)
         => /\ (newParent = None /\ HasRoles /\ site # None)
                 => /\ call'.result.error # None
                    /\ utility' = utility /\ parent' = parent
            /\ (newParent = None /\ site = None)
                 => /\ call'.result.error = None
                    /\ utility' = utility /\ parent' = None
            /\ (newParent # None /\ site = Some("persistent"))
                 => call'.result.error = None /\ utility' /\ parent' = newParent
            /\ (newParent # None /\ site # Some("persistent"))
                 => /\ call'.result.error # None
                    /\ utility' = utility /\ parent' = parent
            /\ own_entity_adds' =
                 IF parent = None /\ call'.result.error = None
                 THEN own_entity_adds + 1 ELSE own_entity_adds
            /\ entities' =
                 IF parent = None /\ call'.result.error = None
                 THEN entities \cup {entity_id} ELSE entities]_vars

\* the authority was added, moved to B and given a role; its removal from B
\* under the active site was refused: it is still in B, registered, with the
\* one OwnEntity of its addition
C26_Witness ==
  /\ call.op = "moved" /\ call.site = Some("persistent")
  /\ call.oldParent = Some("B") /\ call.newParent = None
  /\ call.result.error = Some("ValueError")
  /\ HasRoles /\ parent = Some("B") /\ utility
  /\ own_entity_adds = 1 /\ entity_id \in entities

====
